---- MODULE Spec2Model ----
(***************************************************************************)
(* URL summarization service: the FastAPI endpoint POST /summarize         *)
(* (src/app.py) and the Streamlit form (src/streamlit_app.py).             *)
(*                                                                         *)
(* Strings are sequences of tokens (a token stands for a run of            *)
(* characters; " " is one whitespace character), so that strip(), the      *)
(* substring tests and message formatting are computed, not assumed.       *)
(* Messages are sequences of fragments: f"prefix: {str(e)}" is the prefix  *)
(* fragment followed by the fragments of str(e).                           *)
(*                                                                         *)
(* The collaborators (ChatGroq, YoutubeLoader, UnstructuredURLLoader, the  *)
(* summarize chain) are opaque: each call's outcome is a nondeterministic  *)
(* choice, recorded in the request's call log.                             *)
(***************************************************************************)
EXTENDS Integers, Sequences, FiniteSets, TLC

\* ---------------------------------------------------------------- bounds
NumRequests == 2
MaxPad == 1

Req == 1..NumRequests

\* ------------------------------------------------------- strings, inputs
WS == " "

RECURSIVE Spaces(_)
Spaces(n) == IF n = 0 THEN <<>> ELSE <<WS>> \o Spaces(n - 1)

Padded(bodies) ==
    { Spaces(l) \o b \o Spaces(t) : l \in 0..MaxPad, t \in 0..MaxPad, b \in bodies }

KeyBodies == { <<>>, <<"gsk_A">>, <<"gsk_B">> }

UrlBodies ==
    { <<>>,
      <<"https://", "example.com">>,
      <<"https://", "youtube.com", "/watch">>,
      <<"https://", "youtu.be", "/v">>,
      <<"example.com">>,
      <<"not", WS, "a", WS, "url">> }

FrontEnds == { "api", "form" }
Keys == Padded(KeyBodies)
Urls == Padded(UrlBodies)

\* the fields of SummarizationRequest, both required strings
BodyFields == { "groq_api_key", "url" }

\* what the body of a POST holds: a JSON object, nothing at all, the JSON
\* null, a JSON list, or text that is no JSON
BodyShapes == { "object", "absent", "null", "list", "invalid_json" }
\* where in its text a body that is no JSON stops being JSON
JsonErrorOffsets == { 0, 1, 24 }
\* what a JSON object holds for a field: a string, nothing (the field is
\* absent), or a value that is no string (null, a number)
FieldKinds == { "string", "absent", "not_string" }

\* what can arrive at a front end. A field that holds no string has no value
\* to speak of; it is written <<>>.
Request(fe, shape, kk, uk, k, u) ==
    [fe |-> fe, body |-> shape, offset |-> 0,
     kinds |-> [groq_api_key |-> kk, url |-> uk],
     groq_api_key |-> k, url |-> u]

FieldValues(kind, strings) == IF kind = "string" THEN strings ELSE { <<>> }

\* the bodies a client can POST
ApiRequests(keys, urls) ==
    UNION { { Request("api", "object", kk, uk, k, u) :
                  k \in FieldValues(kk, keys), u \in FieldValues(uk, urls) } :
            kk \in FieldKinds, uk \in FieldKinds }
    \cup { Request("api", shape, "absent", "absent", <<>>, <<>>) :
              shape \in BodyShapes \ {"object", "invalid_json"} }
    \cup { [Request("api", "invalid_json", "absent", "absent", <<>>, <<>>)
               EXCEPT !.offset = o] : o \in JsonErrorOffsets }

\* the form's text inputs always hold strings
FormRequests(keys, urls) ==
    { Request("form", "object", "string", "string", k, u) : k \in keys, u \in urls }

Requests(fes, keys, urls) ==
    (IF "api" \in fes THEN ApiRequests(keys, urls) ELSE {})
    \cup (IF "form" \in fes THEN FormRequests(keys, urls) ELSE {})

\* the body builds a SummarizationRequest
ValidBody(q) == q.body = "object" /\ \A f \in BodyFields : q.kinds[f] = "string"

\* inputs of the interleaved specification
ConcKeys == { <<"gsk_A">>, <<"gsk_B">> }
ConcUrls ==
    { <<"https://", "example.com">>, <<"https://", "youtube.com", "/watch">>, <<"example.com">> }

\* str.strip(): drop leading and trailing whitespace
RECURSIVE lstrip(_)
lstrip(s) == IF s # <<>> /\ Head(s) = WS THEN lstrip(Tail(s)) ELSE s

RECURSIVE rstrip(_)
rstrip(s) == IF s # <<>> /\ s[Len(s)] = WS THEN rstrip(SubSeq(s, 1, Len(s) - 1)) ELSE s

strip(s) == rstrip(lstrip(s))

\* validators.url(value): a scheme, then a host, then host/path characters;
\* any whitespace makes the value invalid.
Schemes == { "https://" }
Hosts == { "example.com", "youtube.com", "youtu.be" }
PathTokens == { "/watch", "/v" }

validators_url(s) ==
    /\ Len(s) >= 2
    /\ s[1] \in Schemes
    /\ s[2] \in Hosts
    /\ \A i \in 3..Len(s) : s[i] \in Hosts \cup PathTokens

\* "youtube.com" in url or "youtu.be" in url
IsYoutube(url) == \E i \in 1..Len(url) : url[i] \in { "youtube.com", "youtu.be" }

\* --------------------------------------------------------------- messages
MsgApiKeyRequired == <<"API Key is required">>
MsgUrlRequired == <<"URL is required">>
MsgInvalidUrl == <<"Invalid URL provided">>
MsgFormBoth == <<"Please provide both API key and URL to get started">>
MsgFormInvalidUrl == <<"Please enter a valid URL (YouTube video or website)">>
MsgNoTranscript ==
    <<"Could not extract YouTube transcript. Please ensure the video has English subtitles available.">>
MsgNoYoutubeContent == <<"No content could be extracted from the YouTube video">>
MsgNoUrlContent == <<"No content could be extracted from the URL">>
MsgYoutubeGuidance ==
    << "Failed to load YouTube content. Please ensure:",
       "1. The video exists and is publicly available",
       "2. The video has English subtitles/captions available",
       "3. The URL is correct and accessible" >>
PrefixLoadFailed == "Failed to load content: "
PrefixGenerateFailed == "Failed to generate summary: "
PrefixUnexpected == "An unexpected error occurred: "
MsgFormUnexpected == <<"An unexpected error occurred. Please try again later.">>

\* ------------------------------------------------------------- exceptions
HTTPException(status, detail) ==
    [type |-> "HTTPException", status_code |-> status, msg |-> detail]
ValueError(msg) == [type |-> "ValueError", status_code |-> 0, msg |-> msg]

\* the text a collaborator's exception carries
ErrText(op) == <<op \o " error">>

\* what a collaborator throws: outcome "raise" is some Exception,
\* "raise_value_error" a ValueError (or a subclass of it)
Raised(op, out) ==
    [type |-> IF out = "raise_value_error" THEN "ValueError" ELSE "Exception",
     status_code |-> 0, msg |-> ErrText(op)]

\* str(e); starlette's HTTPException prints "<status>: <detail>"
str(e) ==
    IF e.type = "HTTPException" THEN <<ToString(e.status_code) \o ": ">> \o e.msg
    ELSE e.msg

\* --------------------------------------------------------------- responses
NoResponse == [kind |-> "none", status |-> 0, detail |-> <<>>, summary |-> <<>>]
\* FastAPI's answer to an HTTPException: status, body {detail}
ErrorResponse(status, detail) ==
    [kind |-> "error", status |-> status, detail |-> detail, summary |-> <<>>]
\* st.error(text)
InlineError(text) == [kind |-> "error", status |-> 0, detail |-> text, summary |-> <<>>]
\* {"summary": summary} with status 200, or st.success(summary)
Success(fe, s) ==
    [kind |-> "success", status |-> IF fe = "api" THEN 200 ELSE 0,
     detail |-> <<>>, summary |-> s]

\* FastAPI's answer to a body that fails SummarizationRequest: status 422,
\* detail a list of entries "<type> <loc>: <msg>". A body that is no object
\* gives one entry: at loc body when there is no body, a null or a list, at
\* loc body.<offset> when the text is no JSON. An object gives one entry per
\* field in error, in the order of the model's fields.
BodyError(q) ==
    IF q.body \in { "absent", "null" } THEN "missing body: Field required"
    ELSE IF q.body = "list"
    THEN "model_attributes_type body: Input should be a valid dictionary or object to extract fields from"
    ELSE "json_invalid body." \o ToString(q.offset) \o ": JSON decode error"

FieldError(field, kind) ==
    IF kind = "string" THEN <<>>
    ELSE IF kind = "absent" THEN << "missing body." \o field \o ": Field required" >>
    ELSE << "string_type body." \o field \o ": Input should be a valid string" >>

RequestValidationError(q) ==
    [kind |-> "error", status |-> 422,
     detail |-> IF q.body # "object" THEN <<BodyError(q)>>
                ELSE FieldError("groq_api_key", q.kinds.groq_api_key)
                     \o FieldError("url", q.kinds.url),
     summary |-> <<>>]

LogLine(level, text) == [level |-> level, text |-> text]

\* -------------------------------------------------------------- documents
YoutubeDocs(url, info) == << [source |-> url, loader |-> "youtube", video_info |-> info] >>
WebDocs(url) == << [source |-> url, loader |-> "web", video_info |-> FALSE] >>
\* chain.run(docs) on an llm configured with key: the generated text
Generated(key, documents) == << [text |-> "Summary text", llm_key |-> key, of |-> documents] >>

Call(op, key, url, info, documents, out) ==
    [op |-> op, key |-> key, url |-> url, add_video_info |-> info,
     docs |-> documents, outcome |-> out]

\* ------------------------------------------------------ input validation
Accept(key, url) == [ok |-> TRUE, groq_api_key |-> key, url |-> url, detail |-> <<>>]
Reject(detail) == [ok |-> FALSE, groq_api_key |-> <<>>, url |-> <<>>, detail |-> detail]

\* faulty variant: the well-formedness check left out
ApiValidate_NoUrlCheck(api_key, url) ==
    LET groq_api_key == strip(api_key)
        u == strip(url)
    IN  IF groq_api_key = <<>> THEN Reject(MsgApiKeyRequired)
        ELSE IF u = <<>> THEN Reject(MsgUrlRequired)
        ELSE Accept(groq_api_key, u)

\* summarize(): strip both inputs, then three checks in order; the stripped
\* values are the ones used afterwards
ApiValidate(api_key, url) ==
    LET groq_api_key == strip(api_key)
        u == strip(url)
    IN  IF groq_api_key = <<>> THEN Reject(MsgApiKeyRequired)
        ELSE IF u = <<>> THEN Reject(MsgUrlRequired)
        ELSE IF ~validators_url(u) THEN Reject(MsgInvalidUrl)
        ELSE Accept(groq_api_key, u)

\* main(): presence is tested on the stripped values, well-formedness on the
\* value as typed, and the values as typed are the ones used afterwards
FormValidate(api_key, url) ==
    IF strip(api_key) = <<>> \/ strip(url) = <<>> THEN Reject(MsgFormBoth)
    ELSE IF ~validators_url(url) THEN Reject(MsgFormInvalidUrl)
    ELSE Accept(api_key, url)

Validation(fe, api_key, url) ==
    IF fe = "api" THEN ApiValidate(api_key, url) ELSE FormValidate(api_key, url)

\* the front end's answer to a rejected input
Rejection(fe, detail) ==
    IF fe = "api" THEN ErrorResponse(400, detail) ELSE InlineError(detail)

\* ------------------------------------------------ extract_youtube_content
\* add_video_info of the first and of the second attempt
FirstAttemptInfo == TRUE
SecondAttemptInfo == FALSE

\* faulty variant: the first attempt's result returned without the "if docs" test
AfterFirstAttempt_ReturnsEmpty(out) == IF out = "raise" THEN "yt_second" ELSE "generate"

\* after the first attempt: return the documents, or fall through
AfterFirstAttempt(out) == IF out = "docs" THEN "generate" ELSE "yt_second"
\* after the second attempt: return the documents, or raise
AfterSecondAttempt(out) == IF out = "docs" THEN "generate" ELSE "done"

\* what extract_youtube_content raises when the second attempt gives nothing
ExtractYoutubeRaise(fe, out) ==
    LET detail == IF out = "raise" THEN MsgNoTranscript ELSE MsgNoYoutubeContent
    IN  IF fe = "api" THEN HTTPException(400, detail) ELSE ValueError(detail)

\* logger.info on a non-empty result of an attempt
ExtractYoutubeInfo(info, url) ==
    << LogLine("info",
           <<IF info THEN "Successfully loaded YouTube content with video info from "
             ELSE "Successfully loaded YouTube content without video info from ">> \o url) >>

ExtractYoutubeLog(out) ==
    IF out = "raise"
    THEN << LogLine("error", <<"Failed to load YouTube content: ">> \o ErrText("YoutubeLoader")) >>
    ELSE <<>>

\* ------------------------------------------------------------ load_content
LoadContentDispatch(url) == IF IsYoutube(url) THEN "yt_first" ELSE "web"

\* faulty variant: a loader that throws is called again
AfterWebLoad_Retry(out) ==
    IF out = "docs" THEN "generate" ELSE IF out = "raise" THEN "web" ELSE "done"

\* faulty variant: the "if not docs" test left out
AfterWebLoad_NoEmptyCheck(out) == IF out = "raise" THEN "done" ELSE "generate"

\* after UnstructuredURLLoader.load(): return the documents, or raise
AfterWebLoad(out) == IF out = "docs" THEN "generate" ELSE "done"

\* raised inside the try block of load_content on the web path
WebLoadRaise(fe, out) ==
    IF out = "raise" THEN Raised("UnstructuredURLLoader", out)
    ELSE IF fe = "api" THEN HTTPException(400, MsgNoUrlContent)
    ELSE ValueError(MsgNoUrlContent)

\* the except clauses of load_content: what leaves the function
LoadContentExcept(fe, url, e) ==
    IF fe = "api" /\ e.type = "HTTPException" THEN e
    ELSE LET detail == IF IsYoutube(url) THEN MsgYoutubeGuidance
                       ELSE <<PrefixLoadFailed>> \o str(e)
         IN  IF fe = "api" THEN HTTPException(400, detail) ELSE ValueError(detail)

LoadContentLog(fe, url, e) ==
    IF fe = "api" /\ e.type = "HTTPException" THEN <<>>
    ELSE << LogLine("error", <<"Error loading content from URL ">> \o url \o <<": ">> \o str(e)) >>

\* -------------------------------------------------------- generate_summary
GenerateSummaryExcept(fe, e) ==
    LET detail == <<PrefixGenerateFailed>> \o str(e)
    IN  IF fe = "api" THEN HTTPException(500, detail) ELSE ValueError(detail)

\* main() logs its success; summarize() does not
SuccessLog(fe) ==
    IF fe = "form" THEN << LogLine("info", <<"Successfully generated summary">>) >> ELSE <<>>

GenerateSummaryLog(e) == << LogLine("error", <<"Error generating summary: ">> \o str(e)) >>

\* faulty variant: summarize() without its "except HTTPException: raise" clause
HandlerExcept_NoPassThrough(fe, e) ==
    IF fe = "api" THEN ErrorResponse(500, <<PrefixUnexpected>> \o str(e))
    ELSE IF e.type = "ValueError" THEN InlineError(str(e))
         ELSE InlineError(MsgFormUnexpected)

\* ------------------------------------------- the handlers' except clauses
\* summarize(): except HTTPException: raise / except Exception: 500
\* main(): except ValueError: st.error(str(e)) / except Exception: generic
HandlerExcept(fe, e) ==
    IF fe = "api"
    THEN IF e.type = "HTTPException" THEN ErrorResponse(e.status_code, e.msg)
         ELSE ErrorResponse(500, <<PrefixUnexpected>> \o str(e))
    ELSE IF e.type = "ValueError" THEN InlineError(str(e))
         ELSE InlineError(MsgFormUnexpected)

\* logger.exception(...) writes the message and the traceback, which ends
\* with the exception's text
HandlerLog(fe, e) ==
    IF (fe = "api" /\ e.type = "HTTPException") \/ (fe = "form" /\ e.type = "ValueError")
    THEN <<>>
    ELSE << LogLine("error", <<"Unexpected error occurred">> \o str(e)) >>

\* ------------------------------------------------------------------ state
VARIABLES
    pc,          \* where each request is in its handler
    req,         \* the request as received: front end, credential, url
    local,       \* the handler's groq_api_key and url after validation
    summarizer,  \* the handler's TextSummarizer (self.llm's credential)
    docs,        \* the handler's docs
    calls,       \* the collaborator calls the request has made, in order
    response,    \* what the front end answered
    failedAt,    \* where the request's failure arose
    log          \* the log lines the request caused

vars == <<pc, req, local, summarizer, docs, calls, response, failedAt, log>>

NoRequest == Request("none", "absent", "absent", "absent", <<>>, <<>>)
NoLocal == [groq_api_key |-> <<>>, url |-> <<>>]
NoSummarizer == [constructed |-> FALSE, llm_key |-> <<>>]

Init ==
    /\ pc = [r \in Req |-> "idle"]
    /\ req = [r \in Req |-> NoRequest]
    /\ local = [r \in Req |-> NoLocal]
    /\ summarizer = [r \in Req |-> NoSummarizer]
    /\ docs = [r \in Req |-> <<>>]
    /\ calls = [r \in Req |-> <<>>]
    /\ response = [r \in Req |-> NoResponse]
    /\ failedAt = [r \in Req |-> "none"]
    /\ log = [r \in Req |-> <<>>]

\* faulty variant: one module-level summarizer, overwritten by every request
NewSummarizer_Shared(r, key) ==
    [q \in Req |-> [constructed |-> TRUE, llm_key |-> key]]

\* summarizer = TextSummarizer(groq_api_key): a local of the handler
NewSummarizer(r, key) ==
    [summarizer EXCEPT ![r] = [constructed |-> TRUE, llm_key |-> key]]

\* the request ends in a failure: e reaches the handler's except clauses
Fail(r, e, origin, lines) ==
    /\ pc' = [pc EXCEPT ![r] = "done"]
    /\ response' = [response EXCEPT ![r] = HandlerExcept(req[r].fe, e)]
    /\ failedAt' = [failedAt EXCEPT ![r] = origin]
    /\ log' = [log EXCEPT ![r] = @ \o lines \o HandlerLog(req[r].fe, e)]

\* ---------------------------------------------------------------- actions
\* a request arrives at one of the front ends
Submit(r, fes, keys, urls) ==
    /\ pc[r] = "idle"
    /\ \E q \in Requests(fes, keys, urls) :
           /\ req' = [req EXCEPT ![r] = q]
           /\ pc' = [pc EXCEPT ![r] = IF q.fe = "api" THEN "parse" ELSE "validate"]
    /\ UNCHANGED <<local, summarizer, docs, calls, response, failedAt, log>>

\* FastAPI builds the SummarizationRequest before it calls summarize(); a
\* body that fails the model is answered 422 and summarize() is not entered
ParseRequest(r) ==
    /\ pc[r] = "parse"
    /\ IF ValidBody(req[r])
       THEN /\ pc' = [pc EXCEPT ![r] = "validate"]
            /\ UNCHANGED <<response, failedAt>>
       ELSE /\ response' = [response EXCEPT ![r] = RequestValidationError(req[r])]
            /\ failedAt' = [failedAt EXCEPT ![r] = "schema"]
            /\ pc' = [pc EXCEPT ![r] = "done"]
    /\ UNCHANGED <<req, local, summarizer, docs, calls, log>>

\* input validation, before the handler's try block does anything else
Validate(r) ==
    /\ pc[r] = "validate"
    /\ LET v == Validation(req[r].fe, req[r].groq_api_key, req[r].url)
       IN  IF v.ok
           THEN /\ local' = [local EXCEPT ![r] = [groq_api_key |-> v.groq_api_key, url |-> v.url]]
                /\ pc' = [pc EXCEPT ![r] = "construct"]
                /\ UNCHANGED <<response, failedAt>>
           ELSE /\ response' = [response EXCEPT ![r] = Rejection(req[r].fe, v.detail)]
                /\ failedAt' = [failedAt EXCEPT ![r] = "validation"]
                /\ pc' = [pc EXCEPT ![r] = "done"]
                /\ UNCHANGED local
    /\ UNCHANGED <<req, summarizer, docs, calls, log>>

\* TextSummarizer(groq_api_key): ChatGroq(...) is constructed, or throws;
\* then load_content(url) picks its path
Construct(r) ==
    /\ pc[r] = "construct"
    /\ \E out \in { "ok", "raise", "raise_value_error" } :
        /\ calls' = [calls EXCEPT ![r] =
                        Append(@, Call("ChatGroq", local[r].groq_api_key, <<>>, FALSE, <<>>, out))]
        /\ IF out = "ok"
           THEN /\ summarizer' = NewSummarizer(r, local[r].groq_api_key)
                /\ pc' = [pc EXCEPT ![r] = LoadContentDispatch(local[r].url)]
                /\ UNCHANGED <<response, failedAt, log>>
           ELSE /\ Fail(r, Raised("ChatGroq", out), "construct", <<>>)
                /\ UNCHANGED summarizer
    /\ UNCHANGED <<req, local, docs>>

\* extract_youtube_content, first attempt
YoutubeFirst(r) ==
    /\ pc[r] = "yt_first"
    /\ \E out \in { "docs", "empty", "raise" } :
        /\ calls' = [calls EXCEPT ![r] =
                        Append(@, Call("YoutubeLoader", <<>>, local[r].url, FirstAttemptInfo, <<>>, out))]
        /\ docs' = [docs EXCEPT ![r] =
                        IF out = "docs" THEN YoutubeDocs(local[r].url, FirstAttemptInfo) ELSE <<>>]
        /\ pc' = [pc EXCEPT ![r] = AfterFirstAttempt(out)]
        /\ log' = [log EXCEPT ![r] =
                        IF out = "raise"
                        THEN Append(@, LogLine("warning",
                                 <<"Failed to load YouTube with video info: ">> \o ErrText("YoutubeLoader")))
                        ELSE IF out = "docs"
                        THEN @ \o ExtractYoutubeInfo(FirstAttemptInfo, local[r].url)
                        ELSE @]
    /\ UNCHANGED <<req, local, summarizer, response, failedAt>>

\* extract_youtube_content, second attempt; what it raises passes through
\* the except clauses of load_content and of the handler
YoutubeSecond(r) ==
    /\ pc[r] = "yt_second"
    /\ \E out \in { "docs", "empty", "raise" } :
        /\ calls' = [calls EXCEPT ![r] =
                        Append(@, Call("YoutubeLoader", <<>>, local[r].url, SecondAttemptInfo, <<>>, out))]
        /\ docs' = [docs EXCEPT ![r] =
                        IF out = "docs" THEN YoutubeDocs(local[r].url, SecondAttemptInfo) ELSE <<>>]
        /\ IF AfterSecondAttempt(out) = "done"
           THEN LET e == ExtractYoutubeRaise(req[r].fe, out)
                IN  Fail(r, LoadContentExcept(req[r].fe, local[r].url, e), "video",
                         ExtractYoutubeLog(out) \o LoadContentLog(req[r].fe, local[r].url, e))
           ELSE /\ pc' = [pc EXCEPT ![r] = AfterSecondAttempt(out)]
                /\ log' = [log EXCEPT ![r] =
                               @ \o ExtractYoutubeInfo(SecondAttemptInfo, local[r].url)]
                /\ UNCHANGED <<response, failedAt>>
    /\ UNCHANGED <<req, local, summarizer>>

\* load_content, web path
WebLoad(r) ==
    /\ pc[r] = "web"
    /\ \E out \in { "docs", "empty", "raise" } :
        /\ calls' = [calls EXCEPT ![r] =
                        Append(@, Call("UnstructuredURLLoader", <<>>, local[r].url, FALSE, <<>>, out))]
        /\ docs' = [docs EXCEPT ![r] = IF out = "docs" THEN WebDocs(local[r].url) ELSE <<>>]
        /\ IF AfterWebLoad(out) = "done"
           THEN LET e == WebLoadRaise(req[r].fe, out)
                IN  Fail(r, LoadContentExcept(req[r].fe, local[r].url, e), "web",
                         LoadContentLog(req[r].fe, local[r].url, e))
           ELSE /\ pc' = [pc EXCEPT ![r] = AfterWebLoad(out)]
                /\ UNCHANGED <<response, failedAt, log>>
    /\ UNCHANGED <<req, local, summarizer>>

\* generate_summary(docs), then the answer
GenerateSummary(r) ==
    /\ pc[r] = "generate"
    /\ \E out \in { "ok", "raise" } :
        /\ calls' = [calls EXCEPT ![r] =
                        Append(@, Call("chain.run", summarizer[r].llm_key, <<>>, FALSE, docs[r], out))]
        /\ IF out = "ok"
           THEN /\ response' = [response EXCEPT ![r] =
                        Success(req[r].fe, Generated(summarizer[r].llm_key, docs[r]))]
                /\ pc' = [pc EXCEPT ![r] = "done"]
                /\ log' = [log EXCEPT ![r] = @ \o SuccessLog(req[r].fe)]
                /\ UNCHANGED failedAt
           ELSE LET e == Raised("chain.run", out)
                IN  Fail(r, GenerateSummaryExcept(req[r].fe, e), "generate", GenerateSummaryLog(e))
    /\ UNCHANGED <<req, local, summarizer, docs>>

Step(r) ==
    \/ ParseRequest(r)
    \/ Validate(r)
    \/ Construct(r)
    \/ YoutubeFirst(r)
    \/ YoutubeSecond(r)
    \/ WebLoad(r)
    \/ GenerateSummary(r)

\* one request, to either front end, over every input
Next ==
    \/ Submit(1, FrontEnds, Keys, Urls)
    \/ Step(1)

Spec == Init /\ [][Next]_vars

\* several requests to the API, their steps interleaved in any order
ConcNext ==
    \E r \in Req :
        \/ Submit(r, {"api"}, ConcKeys, ConcUrls)
        \/ Step(r)

ConcSpec == Init /\ [][ConcNext]_vars

\* ================================================================ claims
Done(r) == pc[r] = "done"
Failures == { "empty", "raise", "raise_value_error" }
YoutubeCalls(r) == SelectSeq(calls[r], LAMBDA c : c.op = "YoutubeLoader")
CountCalls(r, op, info) ==
    Cardinality({ i \in 1..Len(calls[r]) :
                    calls[r][i].op = op /\ calls[r][i].add_video_info = info })
Contains(msg, fragments) == \E i \in 1..Len(msg), j \in 1..Len(fragments) : msg[i] = fragments[j]

\* the request holds a credential or a URL that is blank after trimming, or
\* a URL that fails the well-formedness test: trimmed, or as the front end
\* tests it (the form tests the URL as typed)
BadInput(r) ==
    LET q == req[r]
    IN  \/ q.kinds.groq_api_key = "string" /\ strip(q.groq_api_key) = <<>>
        \/ /\ q.kinds.url = "string"
           /\ \/ strip(q.url) = <<>>
              \/ ~validators_url(strip(q.url))
              \/ q.fe = "form" /\ ~validators_url(q.url)

\* C1 as stated: a request whose credential or URL is blank after trimming,
\* or whose URL is malformed, is rejected as InvalidInput (400 on the API,
\* an inline error in the form) with no summarizer constructed and no
\* collaborator call made.
C1_InvalidInputRejected_AsStated ==
    \A r \in Req :
        (pc[r] \notin { "idle", "parse", "validate" } /\ BadInput(r)) =>
            /\ Done(r)
            /\ failedAt[r] = "validation"
            /\ response[r].kind = "error"
            /\ response[r].detail # <<>>
            /\ (req[r].fe = "api" => response[r].status = 400)
            /\ calls[r] = <<>>
            /\ ~summarizer[r].constructed

\* C1, amended: such a request is rejected with no summarizer constructed
\* and no collaborator call made; the form shows an inline error, the API
\* answers 400 from the handler when the body builds a SummarizationRequest
\* and 422 from the request model when it does not.
C1_InvalidInputRejectedBeforeAnyCall ==
    \A r \in Req :
        (pc[r] \notin { "idle", "parse", "validate" } /\ BadInput(r)) =>
            /\ Done(r)
            /\ response[r].kind = "error"
            /\ response[r].detail # <<>>
            /\ calls[r] = <<>>
            /\ ~summarizer[r].constructed
            /\ req[r].fe = "form" =>
                   (failedAt[r] = "validation" /\ response[r].status = 0)
            /\ (req[r].fe = "api" /\ ValidBody(req[r])) =>
                   (failedAt[r] = "validation" /\ response[r].status = 400)
            /\ (req[r].fe = "api" /\ ~ValidBody(req[r])) =>
                   (failedAt[r] = "schema" /\ response[r].status = 422)

C1_Witness ==
    \E r \in Req :
        /\ Done(r)
        /\ req[r].fe = "api"
        /\ req[r].kinds = [groq_api_key |-> "string", url |-> "absent"]
        /\ req[r].groq_api_key = <<WS>>
        /\ response[r].status = 422
        /\ response[r].detail = << "missing body.url: Field required" >>
        /\ calls[r] = <<>>

\* C2: the attempt with video info comes first; documents from it are the
\* result and end the extraction; when it throws or returns nothing the
\* transcript-only attempt follows, its documents are the result, and the
\* first attempt's exception is not the request's failure.
C2_FallbackOrder ==
    \A r \in Req :
        LET yt == YoutubeCalls(r)
        IN  /\ Len(yt) <= 2
            /\ Len(yt) >= 1 => yt[1].add_video_info = TRUE
            /\ Len(yt) = 2 => (yt[2].add_video_info = FALSE /\ yt[1].outcome \in Failures)
            /\ (Len(yt) >= 1 /\ yt[1].outcome = "docs") =>
                   /\ Len(yt) = 1
                   /\ docs[r] = YoutubeDocs(local[r].url, TRUE)
                   /\ pc[r] \in { "generate", "done" }
                   /\ failedAt[r] # "video"
            /\ (Len(yt) = 1 /\ yt[1].outcome \in Failures) =>
                   /\ pc[r] = "yt_second"
                   /\ response[r] = NoResponse
                   /\ failedAt[r] = "none"
            /\ (Len(yt) = 2 /\ yt[2].outcome = "docs") =>
                   /\ docs[r] = YoutubeDocs(local[r].url, FALSE)
                   /\ pc[r] \in { "generate", "done" }
                   /\ failedAt[r] # "video"

C2_Witness ==
    \E r \in Req :
        LET yt == YoutubeCalls(r)
        IN  /\ Len(yt) = 2
            /\ yt[1].outcome = "raise"
            /\ yt[2].outcome = "docs"
            /\ Done(r)
            /\ response[r].kind = "success"
            /\ response[r].summary[1].of = YoutubeDocs(local[r].url, FALSE)

MentionsPublic(msg) == Contains(msg, <<"1. The video exists and is publicly available">>)
MentionsEnglishCaptions(msg) ==
    Contains(msg, << "2. The video has English subtitles/captions available" >> \o MsgNoTranscript)

\* C3: when both video attempts fail (throwing or empty, in any
\* combination) the request fails with a 400-class error whose message tells
\* the caller to check that the video is public and has English captions.
C3_TranscriptUnavailableGuidance ==
    \A r \in Req :
        LET yt == YoutubeCalls(r)
        IN  (Len(yt) = 2 /\ yt[1].outcome \in Failures /\ yt[2].outcome \in Failures) =>
                /\ Done(r)
                /\ response[r].kind = "error"
                /\ (req[r].fe = "api" => response[r].status = 400)
                /\ MentionsPublic(response[r].detail)
                /\ MentionsEnglishCaptions(response[r].detail)

C5_FrontEndsAgree ==
    \A r \in Req :
        (pc[r] # "idle" /\ ValidBody(req[r])) =>
            LET a == ApiValidate(req[r].groq_api_key, req[r].url)
                f == FormValidate(req[r].groq_api_key, req[r].url)
            IN  /\ a.ok = f.ok
                /\ a.groq_api_key = f.groq_api_key
                /\ a.url = f.url

\* C6: an uncategorized failure of a POST /summarize request (the
\* summarizer's construction throws) is answered with a fixed message that
\* carries none of the exception's text; the text is in the log only.
C6_UnexpectedIsGeneric ==
    \A r \in Req :
        (req[r].fe = "api" /\ Done(r) /\ failedAt[r] = "construct") =>
            /\ response[r].kind = "error"
            /\ ~Contains(response[r].detail, ErrText("ChatGroq"))
            /\ log[r] # <<>>
            /\ Contains(log[r][Len(log[r])].text, ErrText("ChatGroq"))

\* C7: a non-video URL for which the web loader returns no documents fails
\* with 'No content could be extracted from the URL', not with the
\* 'Failed to load content: <cause>' of a loader that throws.
C7_ContentNotFound ==
    \A r \in Req :
        (/\ Done(r)
         /\ calls[r] # <<>>
         /\ calls[r][Len(calls[r])].op = "UnstructuredURLLoader"
         /\ calls[r][Len(calls[r])].outcome = "empty"
         /\ ~IsYoutube(local[r].url)) =>
            /\ response[r].kind = "error"
            /\ response[r].detail = MsgNoUrlContent
            /\ (req[r].fe = "api" => response[r].status = 400)

\* C8: per request, each video mode is tried at most once, the web loader at
\* most once and the LLM at most once; a failing call other than the first
\* video attempt is the request's last call and ends it in a failure.
C8_NoRetries ==
    \A r \in Req :
        /\ CountCalls(r, "YoutubeLoader", TRUE) <= 1
        /\ CountCalls(r, "YoutubeLoader", FALSE) <= 1
        /\ CountCalls(r, "UnstructuredURLLoader", FALSE) <= 1
        /\ CountCalls(r, "chain.run", FALSE) <= 1
        /\ \A i \in 1..Len(calls[r]) :
               LET c == calls[r][i]
               IN  (c.outcome \in Failures /\ ~(c.op = "YoutubeLoader" /\ c.add_video_info)) =>
                       /\ i = Len(calls[r])
                       /\ Done(r)
                       /\ response[r].kind = "error"
                       /\ failedAt[r] # "none"

C8_Witness ==
    \E r \in Req :
        /\ Len(calls[r]) = 3
        /\ calls[r][2].op = "YoutubeLoader" /\ calls[r][2].outcome = "empty"
        /\ calls[r][3].op = "YoutubeLoader" /\ calls[r][3].outcome = "raise"
        /\ Done(r)
        /\ failedAt[r] = "video"

\* the answer of a request to the API that runs alone, given the outcomes of
\* its collaborator calls in order
AloneGenerate(key, documents, out) ==
    IF out = "ok" THEN Success("api", Generated(key, documents))
    ELSE HandlerExcept("api", GenerateSummaryExcept("api", Raised("chain.run", out)))

AloneResponse(q, outs) ==
    LET v == ApiValidate(q.groq_api_key, q.url)
    IN  IF ~ValidBody(q) THEN RequestValidationError(q)
        ELSE IF ~v.ok THEN Rejection("api", v.detail)
        ELSE IF outs[1] # "ok" THEN HandlerExcept("api", Raised("ChatGroq", outs[1]))
        ELSE IF IsYoutube(v.url)
        THEN IF outs[2] = "docs"
             THEN AloneGenerate(v.groq_api_key, YoutubeDocs(v.url, TRUE), outs[3])
             ELSE IF outs[3] = "docs"
             THEN AloneGenerate(v.groq_api_key, YoutubeDocs(v.url, FALSE), outs[4])
             ELSE HandlerExcept("api",
                      LoadContentExcept("api", v.url, ExtractYoutubeRaise("api", outs[3])))
        ELSE IF outs[2] = "docs"
             THEN AloneGenerate(v.groq_api_key, WebDocs(v.url), outs[3])
             ELSE HandlerExcept("api", LoadContentExcept("api", v.url, WebLoadRaise("api", outs[2])))

Outcomes(r) == [i \in 1..Len(calls[r]) |-> calls[r][i].outcome]

\* C9: under any interleaving of requests, a request's LLM is configured with
\* its own credential, its loaders are given its own URL, its LLM call gets
\* only documents of its own URL, and its answer is the one it would get
\* running alone with the same collaborator outcomes.
C9_RequestsIndependent ==
    \A r \in Req :
        /\ summarizer[r].constructed => summarizer[r].llm_key = strip(req[r].groq_api_key)
        /\ \A i \in 1..Len(calls[r]) :
               LET c == calls[r][i]
               IN  /\ c.op \in { "ChatGroq", "chain.run" } => c.key = strip(req[r].groq_api_key)
                   /\ c.op \in { "YoutubeLoader", "UnstructuredURLLoader" } =>
                          c.url = strip(req[r].url)
                   /\ \A j \in 1..Len(c.docs) : c.docs[j].source = strip(req[r].url)
        /\ Done(r) =>
               response[r] = AloneResponse(req[r], Outcomes(r))

C9_Witness ==
    \E r, q \in Req :
        /\ r # q
        /\ req[r].groq_api_key # req[q].groq_api_key
        /\ req[r].url # req[q].url
        /\ Done(r) /\ response[r].kind = "success"
        /\ pc[q] = "generate" /\ docs[q] # <<>>
        /\ response[r].summary[1].llm_key = req[r].groq_api_key
        /\ response[r].summary[1].of # docs[q]

\* the documents a loader call returned
Returned(r, c) ==
    IF c.outcome # "docs" THEN <<>>
    ELSE IF c.op = "YoutubeLoader" THEN YoutubeDocs(local[r].url, c.add_video_info)
    ELSE IF c.op = "UnstructuredURLLoader" THEN WebDocs(local[r].url)
    ELSE <<>>

\* C10: the summary generator is called only after validation passed and a
\* loader returned a non-empty document list, on exactly those documents; a
\* success answer carries exactly what that call returned.
C10_GenerateAfterLoad ==
    \A r \in Req :
        /\ \A i \in 1..Len(calls[r]) :
               calls[r][i].op = "chain.run" =>
                   /\ ValidBody(req[r])
                   /\ Validation(req[r].fe, req[r].groq_api_key, req[r].url).ok
                   /\ i > 1
                   /\ calls[r][i].docs # <<>>
                   /\ calls[r][i].docs = Returned(r, calls[r][i - 1])
                   /\ failedAt[r] \notin { "schema", "validation", "video", "web" }
        /\ response[r].kind = "success" =>
               /\ calls[r] # <<>>
               /\ LET c == calls[r][Len(calls[r])]
                  IN  /\ c.op = "chain.run"
                      /\ c.outcome = "ok"
                      /\ response[r].summary = Generated(c.key, c.docs)

C10_Witness ==
    \E r \in Req :
        /\ Done(r)
        /\ response[r].kind = "success"
        /\ Len(calls[r]) = 3
        /\ calls[r][2].op = "UnstructuredURLLoader"
        /\ response[r].summary = Generated(local[r].groq_api_key, WebDocs(local[r].url))

====
